---- MODULE Spec2Model ----
(***************************************************************************)
(* The LTTng-UST filter bytecode validator                                 *)
(* (src/liblttng-ust/lttng-filter-validator.c) as a state machine.         *)
(*                                                                         *)
(* lttng_filter_validate_bytecode walks the buffer front to back once.     *)
(* Each loop iteration reads the instruction at pc three times             *)
(* (bytecode_validate_overflow, validate_instruction_all_contexts,         *)
(* exec_insn) and never reads an offset below pc again, so the bytes at    *)
(* pc are drawn when the walk reaches pc (CheckOverflow) and latched in    *)
(* insn for the rest of the iteration.  An instruction is the record of    *)
(* the fields the code reads from its encoding: the opcode byte, the reg   *)
(* byte, the 16-bit skip_offset and, for an inline string, the index of    *)
(* its first NUL byte (str_len, which may lie past the buffer end).        *)
(***************************************************************************)
EXTENDS Integers, Sequences, FiniteSets, TLC

VARIABLES
    at,                     \* position of lttng_filter_validate_bytecode
    len,                    \* bytecode->len
    pc, next_pc,            \* offsets from start_pc
    insn,                   \* the instruction encoded at pc (latched)
    reg,                    \* struct vreg reg[NR_REG]
    merge_points,           \* the hash table: nodes in chain order
    ret,                    \* int ret
    log,                    \* ERR() messages printed by this call
    lttng_hash_seed,        \* static unsigned long
    lttng_hash_seed_ready,  \* static unsigned int
    clock,                  \* what time(NULL) returns
    heap_nodes,             \* lfht_mp_node objects allocated and not freed
    heap_ht,                \* the cds_lfht is allocated and not destroyed
    trunc_len,              \* a second length <= len: the same bytes, cut
    trunc_done, trunc_ret,  \* the validator's run on the cut buffer
    trunc_log,
    path_reg,               \* register file along one control-flow path
    path_wait,              \* -1: the path is at pc; else its jump target
    path_bad,               \* an instruction on the path failed its check
    calls,                  \* calls of the validator made so far
    prev_ret,               \* what the previous call returned
    keep,                   \* later calls are given the same buffer
    data,                   \* the instructions decoded so far, when kept
    init_at,                \* position of the constructor init()
    pfd,                    \* int pfd
    sigio,                  \* the handler of USTSIGNAL (SIGIO)
    listeners               \* the threads cloned by create_listener

vars == <<at, len, pc, next_pc, insn, reg, merge_points, ret, log,
          lttng_hash_seed, lttng_hash_seed_ready, clock, heap_nodes, heap_ht,
          trunc_len, trunc_done, trunc_ret, trunc_log,
          path_reg, path_wait, path_bad, calls, prev_ret, keep, data,
          init_at, pfd, sigio, listeners>>

\* the state of the tracer bootstrap (src/unnamed/part_000)
tracer_vars == <<init_at, pfd, sigio, listeners>>

\* the process image before the constructors run: int pfd = -1, SIGIO at
\* its default disposition, no thread cloned
TracerAtLoad ==
    /\ init_at = "start"
    /\ pfd = -1
    /\ sigio = "SIG_DFL"
    /\ listeners = <<>>

---------------------------------------------------------------------------
(* Bounds of the model *)

\* longest buffer drawn
MaxLen == 15
\* longest inline string drawn (bytes before its NUL)
MaxStr == 1
\* longest buffer drawn together with its truncations
MaxTruncLen == 10
\* calls of the validator in one behaviour
MaxCalls == 2
\* longest buffer drawn when the validator is called more than once
MaxCallLen == 8
\* longest buffer drawn when the same buffer is validated again
MaxSameLen == 8
\* longest buffer drawn when the walk is followed to its end
MaxLiveLen == 10
\* longest buffer drawn when the decoded instructions are recorded
MaxWalkLen == 11
\* listener threads cloned in one behaviour
MaxListeners == 3

---------------------------------------------------------------------------
(* Constants of the program *)

EINVAL == 22
ENOMEM == 12

NR_REG == 2
REG_R0 == 0
REG_R1 == 1
REG_ERROR == 2

\* sizeof of the packed instruction encodings
SizeofReturnOp == 1
SizeofBinaryOp == 1
SizeofUnaryOp == 2
SizeofLogicalOp == 3
SizeofLoadOp == 2
SizeofCastOp == 2
SizeofFieldRef == 2
SizeofLiteralNumeric == 8
SizeofLiteralDouble == 8

RegTypes == {"REG_TYPE_UNKNOWN", "REG_S64", "REG_DOUBLE", "REG_STRING"}

\* the case labels of the three switch statements, by group
OpsReserved == {"FILTER_OP_MUL", "FILTER_OP_DIV", "FILTER_OP_MOD",
                "FILTER_OP_PLUS", "FILTER_OP_MINUS", "FILTER_OP_RSHIFT",
                "FILTER_OP_LSHIFT", "FILTER_OP_BIN_AND", "FILTER_OP_BIN_OR",
                "FILTER_OP_BIN_XOR"}
OpsCompare == {"FILTER_OP_EQ", "FILTER_OP_NE", "FILTER_OP_GT",
               "FILTER_OP_LT", "FILTER_OP_GE", "FILTER_OP_LE"}
OpsCompareString == {"FILTER_OP_EQ_STRING", "FILTER_OP_NE_STRING",
                     "FILTER_OP_GT_STRING", "FILTER_OP_LT_STRING",
                     "FILTER_OP_GE_STRING", "FILTER_OP_LE_STRING"}
OpsCompareS64 == {"FILTER_OP_EQ_S64", "FILTER_OP_NE_S64", "FILTER_OP_GT_S64",
                  "FILTER_OP_LT_S64", "FILTER_OP_GE_S64", "FILTER_OP_LE_S64"}
OpsCompareDouble == {"FILTER_OP_EQ_DOUBLE", "FILTER_OP_NE_DOUBLE",
                     "FILTER_OP_GT_DOUBLE", "FILTER_OP_LT_DOUBLE",
                     "FILTER_OP_GE_DOUBLE", "FILTER_OP_LE_DOUBLE"}
OpsUnary == {"FILTER_OP_UNARY_PLUS", "FILTER_OP_UNARY_MINUS",
             "FILTER_OP_UNARY_NOT"}
OpsUnaryS64 == {"FILTER_OP_UNARY_PLUS_S64", "FILTER_OP_UNARY_MINUS_S64",
                "FILTER_OP_UNARY_NOT_S64"}
OpsUnaryDouble == {"FILTER_OP_UNARY_PLUS_DOUBLE",
                   "FILTER_OP_UNARY_MINUS_DOUBLE",
                   "FILTER_OP_UNARY_NOT_DOUBLE"}
OpsLogical == {"FILTER_OP_AND", "FILTER_OP_OR"}
OpsLoadFieldRefString == {"FILTER_OP_LOAD_FIELD_REF_STRING",
                          "FILTER_OP_LOAD_FIELD_REF_SEQUENCE"}
OpsLoadFieldRefTyped == OpsLoadFieldRefString
                        \cup {"FILTER_OP_LOAD_FIELD_REF_S64",
                              "FILTER_OP_LOAD_FIELD_REF_DOUBLE"}
OpsCastNumeric == {"FILTER_OP_CAST_TO_S64", "FILTER_OP_CAST_DOUBLE_TO_S64"}
OpsCast == OpsCastNumeric \cup {"FILTER_OP_CAST_NOP"}

OpsAllCompare == OpsCompare \cup OpsCompareString \cup OpsCompareS64
                 \cup OpsCompareDouble
OpsAllUnary == OpsUnary \cup OpsUnaryS64 \cup OpsUnaryDouble

\* every opcode with a case label other than FILTER_OP_UNKNOWN / default
OpsKnown == {"FILTER_OP_RETURN", "FILTER_OP_LOAD_FIELD_REF",
             "FILTER_OP_LOAD_STRING", "FILTER_OP_LOAD_S64",
             "FILTER_OP_LOAD_DOUBLE"}
            \cup OpsReserved \cup OpsAllCompare \cup OpsAllUnary
            \cup OpsLogical \cup OpsLoadFieldRefTyped \cup OpsCast

---------------------------------------------------------------------------
(* The instructions drawn at pc: one opcode of every case-label group,    *)
(* FILTER_OP_UNKNOWN and a byte outside the enumeration, with every value  *)
(* of the operand fields the code reads.                                   *)

NoInsn == [op |-> "none", reg |-> 0, skip_offset |-> 0, str_len |-> 0]

Mk(op, r, s, n) == [op |-> op, reg |-> r, skip_offset |-> s, str_len |-> n]

FetchPlain == {"FILTER_OP_RETURN", "FILTER_OP_EQ", "FILTER_OP_EQ_STRING",
               "FILTER_OP_EQ_S64", "FILTER_OP_EQ_DOUBLE", "FILTER_OP_MUL",
               "FILTER_OP_LOAD_FIELD_REF", "FILTER_OP_UNKNOWN", "0xff"}
FetchReg == {"FILTER_OP_UNARY_PLUS", "FILTER_OP_UNARY_PLUS_S64",
             "FILTER_OP_UNARY_PLUS_DOUBLE",
             "FILTER_OP_LOAD_FIELD_REF_STRING",
             "FILTER_OP_LOAD_FIELD_REF_S64",
             "FILTER_OP_LOAD_FIELD_REF_DOUBLE",
             "FILTER_OP_LOAD_S64", "FILTER_OP_LOAD_DOUBLE",
             "FILTER_OP_CAST_TO_S64", "FILTER_OP_CAST_DOUBLE_TO_S64",
             "FILTER_OP_CAST_NOP"}
FetchLogical == {"FILTER_OP_AND"}

Insns == {Mk(op, 0, 0, 0) : op \in FetchPlain}
         \cup {Mk(op, r, 0, 0) : op \in FetchReg, r \in 0..REG_ERROR}
         \cup {Mk("FILTER_OP_LOAD_STRING", r, 0, n) :
                  r \in 0..REG_ERROR, n \in 0..MaxStr}
         \cup {Mk(op, 0, s, 0) : op \in FetchLogical, s \in 0..(MaxLen + 1)}


---------------------------------------------------------------------------
(* Helpers of the program *)

Res(r, e) == [ret |-> r, err |-> e]

Min(a, b) == IF a <= b THEN a ELSE b

\* strnlen(insn->data, maxlen)
strnlen(i, maxlen) == Min(i.str_len, maxlen)

\* lttng_hash_mix(key, sizeof(key), seed)
lttng_hash_mix(key, seed) == (key * 31 + seed * 17) % 128

\* a match that compares the key with the node's hash
lttng_hash_match_hash(node, key_pc) == node.hash = key_pc

\* a match that also depends on the seeded hash of the node
lttng_hash_match_even(node, key_pc) ==
    node.target_pc = key_pc /\ node.hash % 2 = 0

lttng_hash_match(node, key_pc) == node.target_pc = key_pc

\* an insertion that replaces the entries already stored for the key
merge_point_add_unique(ht, target_pc, r, seed, malloc_ok) ==
    IF ~malloc_ok
    THEN [ret |-> -ENOMEM, ht |-> ht]
    ELSE [ret |-> 0,
          ht |-> Append(SelectSeq(ht, LAMBDA n : n.target_pc # target_pc),
                        [hash |-> lttng_hash_mix(target_pc, seed),
                         target_pc |-> target_pc, reg |-> r])]

merge_point_add(ht, target_pc, r, seed, malloc_ok) ==
    IF ~malloc_ok
    THEN [ret |-> -ENOMEM, ht |-> ht]
    ELSE [ret |-> 0,
          ht |-> Append(ht, [hash |-> lttng_hash_mix(target_pc, seed),
                             target_pc |-> target_pc, reg |-> r])]

\* a check that lets a string be compared with a number
bin_op_compare_check_lax(r) ==
    IF r[REG_R0].type = "REG_TYPE_UNKNOWN"
       \/ r[REG_R1].type = "REG_TYPE_UNKNOWN"
    THEN Res(-EINVAL, <<>>)
    ELSE Res(0, <<>>)

bin_op_compare_check(r) ==
    CASE r[REG_R0].type = "REG_STRING" ->
            (CASE r[REG_R1].type = "REG_STRING" -> Res(0, <<>>)
               [] r[REG_R1].type \in {"REG_S64", "REG_DOUBLE"} ->
                    Res(-EINVAL, <<"type mismatch for binary operator">>)
               [] OTHER -> Res(-EINVAL, <<>>))
      [] r[REG_R0].type \in {"REG_S64", "REG_DOUBLE"} ->
            (CASE r[REG_R1].type = "REG_STRING" ->
                    Res(-EINVAL, <<"type mismatch for binary operator">>)
               [] r[REG_R1].type \in {"REG_S64", "REG_DOUBLE"} -> Res(0, <<>>)
               [] OTHER -> Res(-EINVAL, <<>>))
      [] OTHER -> Res(-EINVAL, <<>>)

\* a bounds test that lets an encoding run one byte past the end
OverflowsOffByOne(l, p, size) ==
    IF p + size > l + 1 THEN Res(-EINVAL, <<>>) ELSE Res(0, <<>>)

\* pc + size > start_pc + bytecode->len
Overflows(l, p, size) ==
    IF p + size > l THEN Res(-EINVAL, <<>>) ELSE Res(0, <<>>)

\* the switch of bytecode_validate_overflow
overflow_switch(l, p, i) ==
    CASE i.op = "FILTER_OP_RETURN" -> Overflows(l, p, SizeofReturnOp)
      [] i.op \in OpsReserved ->
            Res(-EINVAL, <<"unsupported bytecode op">>)
      [] i.op \in OpsAllCompare -> Overflows(l, p, SizeofBinaryOp)
      [] i.op \in OpsAllUnary -> Overflows(l, p, SizeofUnaryOp)
      [] i.op \in OpsLogical -> Overflows(l, p, SizeofLogicalOp)
      [] i.op = "FILTER_OP_LOAD_FIELD_REF" ->
            Res(-EINVAL, <<"Unknown field ref type">>)
      [] i.op \in OpsLoadFieldRefTyped ->
            Overflows(l, p, SizeofLoadOp + SizeofFieldRef)
      [] i.op = "FILTER_OP_LOAD_STRING" ->
            IF p + SizeofLoadOp > l
            THEN Res(-EINVAL, <<>>)
            ELSE LET maxlen == l - p - SizeofLoadOp
                     str_len == strnlen(i, maxlen)
                 IN  IF str_len >= maxlen
                     THEN Res(-EINVAL, <<>>)
                     ELSE Res(0, <<>>)
      [] i.op = "FILTER_OP_LOAD_S64" ->
            Overflows(l, p, SizeofLoadOp + SizeofLiteralNumeric)
      [] i.op = "FILTER_OP_LOAD_DOUBLE" ->
            Overflows(l, p, SizeofLoadOp + SizeofLiteralDouble)
      [] i.op \in OpsCast -> Overflows(l, p, SizeofCastOp)
      [] OTHER -> Res(-EINVAL, <<"unknown bytecode op">>)

\* a switch that treats the reserved opcodes as one-byte binary operators
overflow_reserved_as_binary(l, p, i) ==
    IF i.op \in OpsReserved \cup {"FILTER_OP_LOAD_FIELD_REF"}
    THEN Overflows(l, p, SizeofBinaryOp)
    ELSE overflow_switch(l, p, i)

\* a switch that checks only the header of FILTER_OP_LOAD_STRING
overflow_string_header_only(l, p, i) ==
    IF i.op = "FILTER_OP_LOAD_STRING"
    THEN Overflows(l, p, SizeofLoadOp)
    ELSE overflow_switch(l, p, i)

bytecode_validate_overflow(l, p, i) == overflow_switch(l, p, i)

\* a register test that the load cases lack
InvalidRegisterLoadsPass(i) ==
    /\ i.reg >= REG_ERROR
    /\ i.op \in OpsAllUnary \cup OpsCast

\* if (unlikely(insn->reg >= REG_ERROR))
InvalidRegister(i) == i.reg >= REG_ERROR

\* a loop test that lets a branch target its own offset
LoopsBackStrict(p, i) == i.skip_offset < p

\* if (unlikely(start_pc + insn->skip_offset <= pc))
LoopsBack(p, i) == i.skip_offset <= p

\* the switch of validate_instruction_context
context_switch(r, p, i) ==
    CASE i.op = "FILTER_OP_RETURN" -> Res(0, <<>>)
      [] i.op \in OpsReserved ->
            Res(-EINVAL, <<"unsupported bytecode op">>)
      [] i.op \in OpsCompare -> bin_op_compare_check(r)
      [] i.op \in OpsCompareString ->
            IF r[REG_R0].type # "REG_STRING" \/ r[REG_R1].type # "REG_STRING"
            THEN Res(-EINVAL,
                     <<"Unexpected register type for string comparator">>)
            ELSE Res(0, <<>>)
      [] i.op \in OpsCompareS64 ->
            IF r[REG_R0].type # "REG_S64" \/ r[REG_R1].type # "REG_S64"
            THEN Res(-EINVAL,
                     <<"Unexpected register type for s64 comparator">>)
            ELSE Res(0, <<>>)
      [] i.op \in OpsCompareDouble ->
            IF (r[REG_R0].type # "REG_DOUBLE" /\ r[REG_R0].type # "REG_S64")
               \/ (r[REG_R1].type # "REG_DOUBLE" /\ r[REG_R1].type # "REG_S64")
            THEN Res(-EINVAL,
                     <<"Unexpected register type for double comparator">>)
            ELSE IF r[REG_R0].type # "REG_DOUBLE"
                    /\ r[REG_R1].type # "REG_DOUBLE"
            THEN Res(-EINVAL,
              <<"Double operator should have at least one double register">>)
            ELSE Res(0, <<>>)
      [] i.op \in OpsUnary ->
            IF InvalidRegister(i)
            THEN Res(-EINVAL, <<"invalid register">>)
            ELSE CASE r[i.reg].type = "REG_STRING" ->
                        Res(-EINVAL, <<"Unary op can only be applied to numeric or floating point registers">>)
                   [] r[i.reg].type \in {"REG_S64", "REG_DOUBLE"} ->
                        Res(0, <<>>)
                   [] OTHER -> Res(-EINVAL, <<"unknown register type">>)
      [] i.op \in OpsUnaryS64 ->
            IF InvalidRegister(i)
            THEN Res(-EINVAL, <<"invalid register">>)
            ELSE IF r[i.reg].type # "REG_S64"
            THEN Res(-EINVAL, <<"Invalid register type">>)
            ELSE Res(0, <<>>)
      [] i.op \in OpsUnaryDouble ->
            IF InvalidRegister(i)
            THEN Res(-EINVAL, <<"invalid register">>)
            ELSE IF r[i.reg].type # "REG_DOUBLE"
            THEN Res(-EINVAL, <<"Invalid register type">>)
            ELSE Res(0, <<>>)
      [] i.op \in OpsLogical ->
            IF r[REG_R0].type # "REG_S64"
            THEN Res(-EINVAL, <<"Logical comparator expects S64 register">>)
            ELSE IF LoopsBack(p, i)
            THEN Res(-EINVAL, <<"Loops are not allowed in bytecode">>)
            ELSE Res(0, <<>>)
      [] i.op = "FILTER_OP_LOAD_FIELD_REF" ->
            Res(-EINVAL, <<"Unknown field ref type">>)
      [] i.op \in OpsLoadFieldRefTyped
                  \cup {"FILTER_OP_LOAD_STRING", "FILTER_OP_LOAD_S64",
                        "FILTER_OP_LOAD_DOUBLE"} ->
            IF InvalidRegister(i)
            THEN Res(-EINVAL, <<"invalid register">>)
            ELSE Res(0, <<>>)
      [] i.op \in OpsCastNumeric ->
            IF InvalidRegister(i)
            THEN Res(-EINVAL, <<"invalid register">>)
            ELSE CASE r[i.reg].type = "REG_STRING" ->
                        Res(-EINVAL, <<"Cast op can only be applied to numeric or floating point registers">>)
                   [] r[i.reg].type \in {"REG_S64", "REG_DOUBLE"} ->
                        IF i.op = "FILTER_OP_CAST_DOUBLE_TO_S64"
                           /\ r[i.reg].type # "REG_DOUBLE"
                        THEN Res(-EINVAL, <<"Cast expects double">>)
                        ELSE Res(0, <<>>)
                   [] OTHER -> Res(-EINVAL, <<"unknown register type">>)
      [] i.op = "FILTER_OP_CAST_NOP" -> Res(0, <<>>)
      [] OTHER -> Res(-EINVAL, <<"unknown bytecode op">>)

\* a check that lets a _DOUBLE comparator take two S64 operands
validate_context_double_lax(r, p, i) ==
    IF /\ i.op \in OpsCompareDouble
       /\ r[REG_R0].type \in {"REG_S64", "REG_DOUBLE"}
       /\ r[REG_R1].type \in {"REG_S64", "REG_DOUBLE"}
    THEN Res(0, <<>>)
    ELSE context_switch(r, p, i)

validate_instruction_context(r, p, i) == context_switch(r, p, i)

\* cds_lfht_for_each_duplicate over the chain: todo is the rest of the
\* chain, kept the nodes passed or left in place
RECURSIVE validate_merge_points(_, _, _, _, _)
validate_merge_points(todo, kept, hash, p, i) ==
    IF todo = <<>>
    THEN [ret |-> 0, err |-> <<>>, ht |-> kept]
    ELSE LET node == Head(todo)
         IN  IF node.hash = hash /\ lttng_hash_match(node, p)
             THEN LET r == validate_instruction_context(node.reg, p, i)
                  IN  IF r.ret # 0
                      THEN [ret |-> r.ret, err |-> r.err, ht |-> kept \o todo]
                      ELSE \* cds_lfht_del: unlinked, and not freed
                           validate_merge_points(Tail(todo), kept, hash, p, i)
             ELSE validate_merge_points(Tail(todo), Append(kept, node),
                                        hash, p, i)

\* a lookup that also unlinks the nodes whose target the walk has passed
all_contexts_take_passed(ht, r, p, i, seed) ==
    LET first == validate_instruction_context(r, p, i)
        v == validate_merge_points(ht, <<>>, lttng_hash_mix(p, seed), p, i)
    IN  IF first.ret # 0
        THEN [ret |-> first.ret, err |-> first.err, ht |-> ht]
        ELSE IF v.ret # 0
        THEN v
        ELSE [v EXCEPT !.ht = SelectSeq(v.ht, LAMBDA n : n.target_pc >= p)]

validate_instruction_all_contexts(ht, r, p, i, seed) ==
    LET first == validate_instruction_context(r, p, i)
    IN  IF first.ret # 0
        THEN [ret |-> first.ret, err |-> first.err, ht |-> ht]
        ELSE validate_merge_points(ht, <<>>, lttng_hash_mix(p, seed), p, i)

SetType(r, k, t) == [r EXCEPT ![k].type = t]

SetReg(r, k, t, l) == [r EXCEPT ![k] = [type |-> t, literal |-> l]]

\* the value left in *_next_pc and reg[], the table and the return value
Exec(rt, r, np, ht) == [ret |-> rt, reg |-> r, next_pc |-> np, ht |-> ht]

\* the switch of exec_insn
exec_switch(ht, r, np, i, seed, malloc_ok) ==
    CASE i.op = "FILTER_OP_RETURN" -> Exec(0, r, np, ht)
      [] i.op \in OpsReserved -> Exec(-EINVAL, r, np, ht)
      [] i.op \in OpsCompare \cup OpsCompareString \cup OpsCompareS64 ->
            Exec(1, SetType(r, REG_R0, "REG_S64"), np + SizeofBinaryOp, ht)
      [] i.op \in OpsCompareDouble ->
            Exec(1, SetType(r, REG_R0, "REG_DOUBLE"), np + SizeofBinaryOp, ht)
      [] i.op \in OpsUnary \cup OpsUnaryS64 ->
            Exec(1, SetType(r, REG_R0, "REG_S64"), np + SizeofUnaryOp, ht)
      [] i.op \in OpsUnaryDouble ->
            Exec(1, SetType(r, REG_R0, "REG_DOUBLE"), np + SizeofUnaryOp, ht)
      [] i.op \in OpsLogical ->
            LET added == merge_point_add(ht, i.skip_offset, r, seed, malloc_ok)
            IN  IF added.ret # 0
                THEN Exec(added.ret, r, np, ht)
                ELSE Exec(1, r, np + SizeofLogicalOp, added.ht)
      [] i.op = "FILTER_OP_LOAD_FIELD_REF" -> Exec(-EINVAL, r, np, ht)
      [] i.op \in OpsLoadFieldRefString ->
            Exec(1, SetReg(r, i.reg, "REG_STRING", 0),
                 np + SizeofLoadOp + SizeofFieldRef, ht)
      [] i.op = "FILTER_OP_LOAD_FIELD_REF_S64" ->
            Exec(1, SetReg(r, i.reg, "REG_S64", 0),
                 np + SizeofLoadOp + SizeofFieldRef, ht)
      [] i.op = "FILTER_OP_LOAD_FIELD_REF_DOUBLE" ->
            Exec(1, SetReg(r, i.reg, "REG_DOUBLE", 0),
                 np + SizeofLoadOp + SizeofFieldRef, ht)
      [] i.op = "FILTER_OP_LOAD_STRING" ->
            Exec(1, SetReg(r, i.reg, "REG_STRING", 1),
                 np + SizeofLoadOp + i.str_len + 1, ht)
      [] i.op = "FILTER_OP_LOAD_S64" ->
            Exec(1, SetReg(r, i.reg, "REG_S64", 1),
                 np + SizeofLoadOp + SizeofLiteralNumeric, ht)
      [] i.op = "FILTER_OP_LOAD_DOUBLE" ->
            Exec(1, SetReg(r, i.reg, "REG_DOUBLE", 1),
                 np + SizeofLoadOp + SizeofLiteralDouble, ht)
      [] i.op \in OpsCastNumeric ->
            Exec(1, SetType(r, i.reg, "REG_S64"), np + SizeofCastOp, ht)
      [] i.op = "FILTER_OP_CAST_NOP" -> Exec(1, r, np + SizeofCastOp, ht)
      [] OTHER -> Exec(-EINVAL, r, np, ht)

\* a transfer that forgets to advance past FILTER_OP_CAST_NOP
exec_insn_nop_stalls(ht, r, np, i, seed, malloc_ok) ==
    IF i.op = "FILTER_OP_CAST_NOP"
    THEN Exec(1, r, np, ht)
    ELSE exec_switch(ht, r, np, i, seed, malloc_ok)

exec_insn(ht, r, np, i, seed, malloc_ok) ==
    exec_switch(ht, r, np, i, seed, malloc_ok)

\* the ERR() of exec_insn's error cases
exec_insn_err(i) ==
    CASE i.op \in OpsReserved -> <<"unsupported bytecode op">>
      [] i.op = "FILTER_OP_LOAD_FIELD_REF" -> <<"Unknown field ref type">>
      [] i.op \in OpsKnown -> <<>>
      [] OTHER -> <<"unknown bytecode op">>

\* delete_all_nodes: every node still linked is unlinked and freed
delete_all_nodes(ht) == Len(ht)

\* an end: that ignores the nodes delete_all_nodes found
EndRetIgnoresNodes(rt, ht) == rt

\* an end: that reports leftover nodes over any earlier result
EndRetNodesFirst(rt, ht) ==
    IF delete_all_nodes(ht) # 0 THEN -EINVAL ELSE rt

\* the end: label of lttng_filter_validate_bytecode, on (ret, table)
EndRet(rt, ht) ==
    IF delete_all_nodes(ht) # 0 /\ rt = 0 THEN -EINVAL ELSE rt

EndErr(rt, ht) ==
    IF delete_all_nodes(ht) # 0 /\ rt = 0
    THEN <<"Unexpected merge points">>
    ELSE <<>>

InitReg == [k \in 0..(NR_REG - 1) |->
               [type |-> "REG_TYPE_UNKNOWN", literal |-> 0]]

\* an entry that leaves reg[] as the stack holds it
reg_at_entry_stale(stale) == stale

\* for (i = 0; i < NR_REG; i++): reg[] whatever the stack held
reg_at_entry(stale) == InitReg

\* a ret that starts as success
ret_at_entry_success(r) == 0

\* int ret = -EINVAL, whatever the stack held
ret_at_entry(r) == -EINVAL

\* a guard that draws the seed in every call
hash_seed_always(ready) == TRUE

\* if (!lttng_hash_seed_ready)
hash_seed_needed(ready) == ready = 0

---------------------------------------------------------------------------
(* The run on the first trunc_len bytes of the same buffer.  It reads the  *)
(* same bytes as the run on len bytes, and neither                         *)
(* validate_instruction_all_contexts nor exec_insn reads bytecode->len, so *)
(* the two runs are in the same state until the shorter one leaves the     *)
(* loop or fails its own bytecode_validate_overflow.                       *)

\* the shorter run at the loop head, i the instruction at pc
TruncAtLoopHead(i) ==
    IF trunc_done
    THEN UNCHANGED <<trunc_done, trunc_ret, trunc_log>>
    ELSE IF pc >= trunc_len
    THEN /\ trunc_done' = TRUE
         /\ trunc_ret' = EndRet(ret, merge_points)
         /\ trunc_log' = log \o EndErr(ret, merge_points)
    ELSE LET ov == bytecode_validate_overflow(trunc_len, pc, i)
         IN  IF ov.ret # 0
             THEN /\ trunc_done' = TRUE
                  /\ trunc_ret' = -EINVAL
                  /\ trunc_log' = log \o ov.err \o <<"filter bytecode overflow">>
             ELSE UNCHANGED <<trunc_done, trunc_ret, trunc_log>>

\* the shorter run returns what the longer one returns when it ran along
TruncAtReturn ==
    IF trunc_done
    THEN UNCHANGED <<trunc_done, trunc_ret, trunc_log>>
    ELSE /\ trunc_done' = TRUE
         /\ trunc_ret' = ret'
         /\ trunc_log' = log'

---------------------------------------------------------------------------
(* One control-flow path of the program: at each AND/OR it either falls    *)
(* through or jumps to skip_offset with the registers it has, and resumes  *)
(* when the walk reaches that offset.                                      *)

PathActive == path_wait = -1 \/ path_wait = pc

PathAtValidate ==
    /\ path_bad' = (path_bad \/ (PathActive /\
                       validate_instruction_context(path_reg, pc, insn).ret # 0))
    /\ path_wait' = IF PathActive THEN -1 ELSE path_wait
    /\ UNCHANGED path_reg

PathAtExec(jump) ==
    /\ UNCHANGED path_bad
    /\ IF path_wait # -1
       THEN UNCHANGED <<path_reg, path_wait>>
       ELSE IF jump
       THEN /\ path_wait' = insn.skip_offset
            /\ UNCHANGED path_reg
       ELSE /\ path_reg' = exec_insn(<<>>, path_reg, 0, insn,
                                     lttng_hash_seed, TRUE).reg
            /\ UNCHANGED path_wait

---------------------------------------------------------------------------
(* The bytes of bytecode->data: when the buffer is kept for a later call,  *)
(* an offset that was decoded before holds the same instruction again.     *)

Decoded(p) == \E k \in 1..Len(data) : data[k].pc = p

Fetch(p) ==
    IF keep /\ Decoded(p)
    THEN {data[k].insn : k \in {j \in 1..Len(data) : data[j].pc = p}}
    ELSE Insns

---------------------------------------------------------------------------
(* lttng_filter_validate_bytecode *)

Init ==
    /\ at = "entry"
    /\ len \in 0..MaxLen
    /\ trunc_len = len
    /\ pc = 0 /\ next_pc = 0
    /\ insn = NoInsn
    /\ reg = InitReg
    /\ merge_points = <<>>
    /\ ret = -EINVAL
    /\ log = <<>>
    /\ lttng_hash_seed = 0
    /\ lttng_hash_seed_ready = 0
    /\ clock = 1
    /\ heap_nodes = 0
    /\ heap_ht = FALSE
    /\ trunc_done = FALSE /\ trunc_ret = -EINVAL /\ trunc_log = <<>>
    /\ path_reg = InitReg /\ path_wait = -1 /\ path_bad = FALSE
    /\ calls = 1 /\ prev_ret = 0 /\ keep = FALSE /\ data = <<>>
    /\ TracerAtLoad

\* entry up to the for loop: locals, the hash seed, cds_lfht_new
Enter ==
    /\ at = "entry"
    /\ \E new_ok \in BOOLEAN :
        /\ reg' = reg_at_entry(reg)
        /\ IF hash_seed_needed(lttng_hash_seed_ready)
           THEN /\ lttng_hash_seed' = clock
                /\ lttng_hash_seed_ready' = 1
           ELSE UNCHANGED <<lttng_hash_seed, lttng_hash_seed_ready>>
        /\ IF new_ok
           THEN /\ heap_ht' = TRUE
                /\ ret' = ret_at_entry(ret)
                /\ log' = <<>>
                /\ at' = "loop"
                /\ UNCHANGED <<trunc_done, trunc_ret, trunc_log>>
           ELSE /\ heap_ht' = FALSE
                /\ ret' = -ENOMEM
                /\ log' = <<"Error allocating hash table for bytecode validation">>
                /\ at' = "done"
                /\ TruncAtReturn
    /\ pc' = 0 /\ next_pc' = 0
    /\ merge_points' = <<>>
    /\ UNCHANGED tracer_vars
    /\ UNCHANGED <<calls, prev_ret, keep, data, len, trunc_len, clock,
                   insn, heap_nodes,
                   path_reg, path_wait, path_bad>>

\* loop condition true: bytecode_validate_overflow on the bytes at pc
CheckOverflow ==
    /\ at = "loop"
    /\ pc < len
    /\ \E i \in Fetch(pc) :
        LET ov == bytecode_validate_overflow(len, pc, i)
        IN  /\ insn' = i
            /\ data' = IF keep /\ ~Decoded(pc)
                       THEN Append(data, [pc |-> pc, insn |-> i])
                       ELSE data
            /\ IF ov.ret # 0
               THEN /\ ret' = -EINVAL
                    /\ log' = log \o ov.err \o <<"filter bytecode overflow">>
                    /\ at' = "end"
               ELSE /\ at' = "validate"
                    /\ UNCHANGED <<ret, log>>
            /\ TruncAtLoopHead(i)
    /\ UNCHANGED tracer_vars
    /\ UNCHANGED <<calls, prev_ret, keep, len, trunc_len, pc, next_pc,
                   reg, merge_points,
                   lttng_hash_seed, lttng_hash_seed_ready, clock, heap_nodes,
                   heap_ht, path_reg, path_wait, path_bad>>

\* loop condition false
LoopExit ==
    /\ at = "loop"
    /\ ~(pc < len)
    /\ at' = "end"
    /\ UNCHANGED tracer_vars
    /\ UNCHANGED <<calls, prev_ret, keep, data, len, trunc_len, pc, next_pc,
                   insn, reg, merge_points, ret,
                   log, lttng_hash_seed, lttng_hash_seed_ready, clock, heap_nodes,
                   heap_ht, trunc_done, trunc_ret, trunc_log,
                   path_reg, path_wait, path_bad>>

ValidateAllContexts ==
    /\ at = "validate"
    /\ LET v == validate_instruction_all_contexts(merge_points, reg, pc,
                                                  insn, lttng_hash_seed)
       IN  /\ ret' = v.ret
           /\ merge_points' = v.ht
           /\ log' = log \o v.err
           /\ at' = IF v.ret # 0 THEN "end" ELSE "exec"
    /\ PathAtValidate
    /\ UNCHANGED tracer_vars
    /\ UNCHANGED <<calls, prev_ret, keep, data, len, trunc_len, pc, next_pc,
                   insn, reg,
                   lttng_hash_seed, lttng_hash_seed_ready, clock, heap_nodes,
                   heap_ht, trunc_done, trunc_ret, trunc_log>>

\* exec_insn, then pc = next_pc; jump: the path takes the branch
ExecInsn(jump) ==
    /\ at = "exec"
    /\ jump => (path_wait = -1 /\ insn.op \in OpsLogical)
    /\ \E malloc_ok \in (IF insn.op \in OpsLogical THEN BOOLEAN ELSE {TRUE}) :
        LET e == exec_insn(merge_points, reg, next_pc, insn,
                           lttng_hash_seed, malloc_ok)
        IN  /\ jump => e.ret > 0
            /\ ret' = e.ret
            /\ reg' = e.reg
            /\ next_pc' = e.next_pc
            /\ merge_points' = e.ht
            /\ heap_nodes' = heap_nodes + Len(e.ht) - Len(merge_points)
            /\ log' = IF e.ret < 0 THEN log \o exec_insn_err(insn) ELSE log
            /\ IF e.ret <= 0
               THEN /\ at' = "end"
                    /\ UNCHANGED <<pc, insn>>
               ELSE /\ at' = "loop"
                    /\ pc' = e.next_pc
                    /\ insn' = NoInsn
    /\ PathAtExec(jump)
    /\ UNCHANGED tracer_vars
    /\ UNCHANGED <<calls, prev_ret, keep, data, len, trunc_len,
                   lttng_hash_seed, lttng_hash_seed_ready, clock,
                   heap_ht, trunc_done, trunc_ret, trunc_log>>

\* end: delete_all_nodes, cds_lfht_destroy, return ret
Cleanup ==
    /\ at = "end"
    /\ ret' = EndRet(ret, merge_points)
    /\ log' = log \o EndErr(ret, merge_points)
    /\ heap_nodes' = heap_nodes - delete_all_nodes(merge_points)
    /\ merge_points' = <<>>
    /\ heap_ht' = FALSE
    /\ at' = "done"
    /\ TruncAtReturn
    /\ UNCHANGED tracer_vars
    /\ UNCHANGED <<calls, prev_ret, keep, data, len, trunc_len, pc, next_pc,
                   insn, reg,
                   lttng_hash_seed, lttng_hash_seed_ready, clock,
                   path_reg, path_wait, path_bad>>

Next ==
    \/ Enter
    \/ CheckOverflow
    \/ LoopExit
    \/ ValidateAllContexts
    \/ ExecInsn(FALSE)
    \/ Cleanup

Spec == Init /\ [][Next]_vars

(* The walk together with one control-flow path through the program *)
NextPaths ==
    \/ Next
    \/ ExecInsn(TRUE)

SpecPaths == Init /\ [][NextPaths]_vars

(* The walk together with the run on a truncation of the buffer *)
InitTrunc ==
    /\ at = "entry"
    /\ len \in 0..MaxTruncLen
    /\ trunc_len \in 0..len
    /\ pc = 0 /\ next_pc = 0
    /\ insn = NoInsn
    /\ reg = InitReg
    /\ merge_points = <<>>
    /\ ret = -EINVAL
    /\ log = <<>>
    /\ lttng_hash_seed = 0
    /\ lttng_hash_seed_ready = 0
    /\ clock = 1
    /\ heap_nodes = 0
    /\ heap_ht = FALSE
    /\ trunc_done = FALSE /\ trunc_ret = -EINVAL /\ trunc_log = <<>>
    /\ path_reg = InitReg /\ path_wait = -1 /\ path_bad = FALSE
    /\ calls = 1 /\ prev_ret = 0 /\ keep = FALSE /\ data = <<>>
    /\ TracerAtLoad

SpecTrunc == InitTrunc /\ [][Next]_vars

(* The type check alone, on every specialised opcode and register file *)

TableOps == OpsCompareString \cup OpsCompareS64 \cup OpsCompareDouble
            \cup OpsAllUnary \cup OpsLogical \cup OpsCast
            \cup {"FILTER_OP_RETURN"}

TableInsns ==
    {Mk(op, IF op \in OpsAllUnary \cup OpsCast THEN r ELSE 0,
        IF op \in OpsLogical THEN MaxLen ELSE 0, 0) :
        op \in TableOps, r \in 0..REG_ERROR}

RegFiles == [0..(NR_REG - 1) -> [type : RegTypes, literal : {0, 1}]]

InitTable ==
    /\ at = "validate"
    /\ len = MaxLen
    /\ trunc_len = len
    /\ pc = 0 /\ next_pc = 0
    /\ insn \in TableInsns
    /\ reg \in RegFiles
    /\ merge_points = <<>>
    /\ ret = -EINVAL
    /\ log = <<>>
    /\ lttng_hash_seed = 1
    /\ lttng_hash_seed_ready = 1
    /\ clock = 1
    /\ heap_nodes = 0
    /\ heap_ht = TRUE
    /\ trunc_done = FALSE /\ trunc_ret = -EINVAL /\ trunc_log = <<>>
    /\ path_reg = reg /\ path_wait = -1 /\ path_bad = FALSE
    /\ calls = 1 /\ prev_ret = 0 /\ keep = FALSE /\ data = <<>>
    /\ TracerAtLoad

NextTable == ValidateAllContexts

SpecTable == InitTable /\ [][NextTable]_vars

(* Several calls of the validator *)

\* the state at the first call, for buffers of at most maxlen bytes
Start(maxlen, k) ==
    /\ at = "entry"
    /\ len \in 0..maxlen
    /\ trunc_len = len
    /\ pc = 0 /\ next_pc = 0
    /\ insn = NoInsn
    /\ reg = InitReg
    /\ merge_points = <<>>
    /\ ret = -EINVAL
    /\ log = <<>>
    /\ lttng_hash_seed = 0
    /\ lttng_hash_seed_ready = 0
    /\ clock = 1
    /\ heap_nodes = 0
    /\ heap_ht = FALSE
    /\ trunc_done = FALSE /\ trunc_ret = -EINVAL /\ trunc_log = <<>>
    /\ path_reg = InitReg /\ path_wait = -1 /\ path_bad = FALSE
    /\ calls = 1 /\ prev_ret = 0 /\ keep = k /\ data = <<>>
    /\ TracerAtLoad

\* the caller calls the validator again, later: the statics and the heap
\* are as the previous call left them, and so is the stack where reg[],
\* pc, next_pc and ret live
Recall ==
    /\ at = "done"
    /\ calls < MaxCalls
    /\ at' = "entry"
    /\ calls' = calls + 1
    /\ prev_ret' = ret
    /\ clock' = clock + 1
    /\ IF keep
       THEN UNCHANGED len
       ELSE len' \in 0..MaxCallLen
    /\ trunc_len' = len'
    /\ insn' = NoInsn
    /\ trunc_done' = FALSE /\ trunc_ret' = -EINVAL /\ trunc_log' = <<>>
    /\ path_reg' = InitReg /\ path_wait' = -1 /\ path_bad' = FALSE

CallAgain ==
    /\ Recall
    /\ UNCHANGED tracer_vars
    /\ UNCHANGED <<pc, next_pc, reg, merge_points, ret, log,
                   lttng_hash_seed, lttng_hash_seed_ready,
                   heap_nodes, heap_ht, keep, data>>

\* the process exits and a new process validates the same buffer: the
\* statics are zero again and the heap is new
Restart ==
    /\ Recall
    /\ lttng_hash_seed' = 0
    /\ lttng_hash_seed_ready' = 0
    /\ heap_nodes' = 0
    /\ UNCHANGED tracer_vars
    /\ UNCHANGED <<pc, next_pc, reg, merge_points, ret, log,
                   heap_ht, keep, data>>

(* One call that keeps running until it returns *)
InitLive == Start(MaxLiveLen, FALSE)

SpecLive == InitLive /\ [][Next]_vars /\ WF_vars(Next)

(* One call, with the instructions the walk decoded recorded in data *)
InitWalk == Start(MaxWalkLen, TRUE)

SpecWalk == InitWalk /\ [][Next]_vars

InitCalls == Start(MaxCallLen, FALSE)

NextCalls ==
    \/ Next
    \/ CallAgain

SpecCalls == InitCalls /\ [][NextCalls]_vars

InitSame == Start(MaxSameLen, TRUE)

NextProcs ==
    \/ NextCalls
    \/ Restart

SpecProcs == InitSame /\ [][NextProcs]_vars

---------------------------------------------------------------------------
(* The tracer bootstrap: the constructor init(), the SIGIO handler and    *)
(* the listener threads.  The main program runs after the constructors.   *)

\* the state of lttng_filter_validate_bytecode, which the bootstrap leaves
\* alone
validator_vars == <<at, len, pc, next_pc, insn, reg, merge_points, ret, log,
                    lttng_hash_seed, lttng_hash_seed_ready, clock,
                    heap_nodes, heap_ht, trunc_len, trunc_done, trunc_ret,
                    trunc_log, path_reg, path_wait, path_bad, calls,
                    prev_ret, keep, data>>

\* the messages listener_main compares recvbuf with, and any other
Messages == {"print_markers", "trace_setup", "trace_alloc", "trace_start",
             "trace_stop", "trace_destroy", "other"}

\* init(), up to the call of init_socket: with UST_TRACE set it returns
\* as soon as one of ltt_trace_setup .. ltt_trace_start fails
InitTrace ==
    /\ init_at = "start"
    /\ \E ust_trace \in BOOLEAN, started \in BOOLEAN :
          init_at' = IF ust_trace /\ ~started THEN "returned"
                     ELSE "init_socket"
    /\ UNCHANGED <<pfd, sigio, listeners>>
    /\ UNCHANGED validator_vars

\* result = init_socket(): socket, snprintf and bind succeed and pfd = fd,
\* or one of them fails, init_socket returns -1 and init() returns
init_socket ==
    /\ init_at = "init_socket"
    /\ \E fd \in {-1, 3}, bound \in BOOLEAN :
          IF fd # -1 /\ bound
          THEN /\ pfd' = fd
               /\ init_at' = "init_signal_handler"
          ELSE /\ pfd' = pfd
               /\ init_at' = "returned"
    /\ UNCHANGED <<sigio, listeners>>
    /\ UNCHANGED validator_vars

\* result = init_signal_handler(): sigaction(SIGIO, &act, NULL) with
\* act.sa_handler = sighandler, unless sigemptyset or sigaction fails
init_signal_handler ==
    /\ init_at = "init_signal_handler"
    /\ \E installed \in BOOLEAN :
          sigio' = IF installed THEN "sighandler" ELSE sigio
    /\ init_at' = "returned"
    /\ UNCHANGED <<pfd, listeners>>
    /\ UNCHANGED validator_vars

\* create_listener: clone(listener_main, ...), which may fail; via names
\* the caller of sighandler
create_listener(via) ==
    /\ Len(listeners) < MaxListeners
    /\ \E cloned \in BOOLEAN :
          listeners' = IF cloned
                       THEN Append(listeners,
                                   [at |-> "recvfrom", via |-> via,
                                    recvfrom_fd |-> {}])
                       ELSE listeners
    /\ UNCHANGED <<init_at, pfd, sigio>>
    /\ UNCHANGED validator_vars

\* SIGIO is delivered while init's handler is installed: sighandler
sighandler ==
    /\ sigio = "sighandler"
    /\ create_listener("sighandler")

\* the main program installs its own SIGIO handler, which overrides the
\* one init installed; it chains to the tracer with chain_signal
AppSigaction ==
    /\ init_at = "returned"
    /\ sigio # "app"
    /\ sigio' = "app"
    /\ UNCHANGED <<init_at, pfd, listeners>>
    /\ UNCHANGED validator_vars

\* SIGIO is delivered to the main program's handler, which calls
\* chain_signal: sighandler(USTSIGNAL)
chain_signal ==
    /\ sigio = "app"
    /\ create_listener("chain_signal")

\* one iteration of the inner loop of listener_main in thread k:
\* recvfrom(pfd, ...) fails (always when pfd is no descriptor) and the
\* loop continues, or a message is received and handled; a failing
\* ltt_trace_* call makes the thread return
listener_main(k) ==
    /\ listeners[k].at = "recvfrom"
    /\ \E received \in (IF pfd = -1 THEN {FALSE} ELSE BOOLEAN),
          msg \in Messages, done \in BOOLEAN :
          listeners' =
              [listeners EXCEPT
                  ![k].recvfrom_fd = @ \cup {pfd},
                  ![k].at = IF /\ received
                               /\ msg \notin {"print_markers", "other"}
                               /\ ~done
                            THEN "returned" ELSE "recvfrom"]
    /\ UNCHANGED <<init_at, pfd, sigio>>
    /\ UNCHANGED validator_vars

InitTracer == Start(0, FALSE)

NextTracer ==
    \/ InitTrace
    \/ init_socket
    \/ init_signal_handler
    \/ sighandler
    \/ AppSigaction
    \/ chain_signal
    \/ \E k \in 1..Len(listeners) : listener_main(k)

SpecTracer == InitTracer /\ [][NextTracer]_vars

---------------------------------------------------------------------------
(* Claims *)

\* the encoded length of an instruction: what exec_insn advances next_pc
\* by, and sizeof(struct return_op) for the terminator
insn_len(i) ==
    IF i.op = "FILTER_OP_RETURN"
    THEN SizeofReturnOp
    ELSE exec_insn(<<>>, InitReg, 0, [i EXCEPT !.reg = REG_R0], 0, TRUE).next_pc

\* opcodes every switch rejects whatever the state
OpsAlwaysRejected == OpsReserved \cup {"FILTER_OP_LOAD_FIELD_REF"}

Accepted == at = "done" /\ ret = 0

\* C1: in an accepted buffer every instruction is admissible for the
\* registers it gets on every control-flow path (fall-through and AND/OR
\* jumps carrying the registers of the branch site), not only at the join.
C1_EveryPathAdmissible == Accepted => ~path_bad

\* C2: the type checker and the transfer function only ever see an
\* instruction whose whole encoding lies inside the buffer
\* (pc + len <= buffer_len), in accepted and rejected runs alike, and
\* next_pc never passes the buffer end.
C2_BoundsCheckedFirst ==
    /\ at \in {"validate", "exec"} => pc + insn_len(insn) <= len
    /\ (at \in {"end", "done"} /\ ret = 0) => pc + insn_len(insn) <= len
    /\ next_pc <= len

C2_Witness ==
    /\ at = "exec"
    /\ insn.op = "FILTER_OP_LOAD_STRING"
    /\ pc > 0
    /\ pc + insn_len(insn) = len

\* C3: an AND/OR at offset p with skip_offset <= p is rejected and adds no
\* merge point, so every AND/OR that is executed has skip_offset > p.
C3_LoopRejected ==
    /\ [](at = "exec" /\ insn.op \in OpsLogical => insn.skip_offset > pc)
    /\ [][(at = "validate" /\ insn.op \in OpsLogical
              /\ insn.skip_offset <= pc)
             => (at' = "end" /\ ret' < 0 /\ merge_points' = merge_points)]_vars

C3_Witness ==
    /\ at = "end"
    /\ insn.op \in OpsLogical
    /\ insn.skip_offset = pc
    /\ reg[REG_R0].type = "REG_S64"
    /\ merge_points # <<>>
    /\ ret = -EINVAL

\* C4: at offset t the instruction is checked against the fall-through
\* registers and against every snapshot keyed t; one failure rejects the
\* program; on success exactly the entries keyed t leave the table.
C4_JoinChecksEverySnapshot ==
    /\ [](at = "exec" =>
            \A k \in 1..Len(merge_points) : merge_points[k].target_pc # pc)
    /\ [][at = "validate" =>
            LET ok(r) == validate_instruction_context(r, pc, insn).ret = 0
                all_ok == /\ ok(reg)
                          /\ \A k \in 1..Len(merge_points) :
                                merge_points[k].target_pc = pc
                                   => ok(merge_points[k].reg)
            IN  /\ all_ok =>
                     /\ at' = "exec"
                     /\ ret' = 0
                     /\ merge_points' =
                          SelectSeq(merge_points, LAMBDA n : n.target_pc # pc)
                /\ ~all_ok => (at' = "end" /\ ret' < 0)]_vars

C4_Witness ==
    /\ at = "end"
    /\ ret = -EINVAL
    /\ validate_instruction_context(reg, pc, insn).ret = 0
    /\ \E k \in 1..Len(merge_points) :
          /\ merge_points[k].target_pc = pc
          /\ validate_instruction_context(merge_points[k].reg, pc, insn).ret # 0

\* C5: the validator returns success only if the merge table is empty
\* when the walk ends; a walk that stops at RETURN with an entry left is
\* rejected.
C5_NoResidualMerge ==
    [][at = "end" => (ret' = 0 <=> (ret = 0 /\ merge_points = <<>>))]_vars

C5_Witness ==
    /\ at = "done"
    /\ insn.op = "FILTER_OP_RETURN"
    /\ ret = -EINVAL
    /\ log # <<>>
    /\ log[Len(log)] = "Unexpected merge points"

\* C6: cutting an accepted buffer anywhere before its RETURN (also at an
\* instruction boundary, also to length 0) makes the validator return an
\* error.
C6_TruncationRejected ==
    (Accepted /\ trunc_len <= pc) => (trunc_done /\ trunc_ret < 0)

\* C7: the validator returns 0 or a negative error code, never the
\* positive "going to next insn" value of exec_insn.
C7_ResultIsSuccessOrError == at = "done" => ret <= 0

\* C8: a reserved arithmetic opcode, the generic LOAD_FIELD_REF or an
\* opcode outside the closed set is rejected at its instruction boundary
\* whatever the registers and the remaining length, and never reaches the
\* type checker or the transfer function.
C8_ReservedRejected ==
    /\ at \in {"validate", "exec"} => insn.op \in OpsKnown \ OpsAlwaysRejected
    /\ (at \in {"end", "done"} /\ insn # NoInsn
           /\ insn.op \notin OpsKnown \ OpsAlwaysRejected)
         => (ret = -EINVAL /\ next_pc = pc)

C8_Witness ==
    /\ at = "end"
    /\ insn.op = "FILTER_OP_MUL"
    /\ reg[REG_R0].type = "REG_S64"
    /\ reg[REG_R1].type = "REG_S64"
    /\ pc + SizeofLogicalOp <= len
    /\ ret = -EINVAL

\* C9: when the validator returns, every merge-table node it allocated
\* and the table itself have been released.
C9_NothingLeaked == at = "done" => (heap_nodes = 0 /\ ~heap_ht)

\* a step that processes no instruction
C10_WalkOver ==
    /\ at' = "done"
    /\ pc' = pc
    /\ next_pc' = next_pc
    /\ reg' = reg
    /\ insn' = insn

\* C10: the first error ends the walk and is the value returned: after a
\* failed bounds check, type check or transfer no instruction is
\* processed, and the cleanup never replaces a non-zero result.
C10_FirstErrorFinal ==
    /\ [][(at = "loop" /\ pc < len
              /\ bytecode_validate_overflow(len, pc, insn').ret # 0)
             => (at' = "end"
                 /\ ret' = bytecode_validate_overflow(len, pc, insn').ret)]_vars
    /\ [][(at \in {"validate", "exec"} /\ ret' < 0) => at' = "end"]_vars
    /\ [][at = "end" => (at' = "done" /\ (ret # 0 => ret' = ret))]_vars
    /\ [][(at \in {"end", "done"}) => C10_WalkOver]_vars

C10_Witness ==
    /\ at = "end"
    /\ ret = -ENOMEM
    /\ merge_points # <<>>

\* C11: validating the same buffer a second time, in the same process or
\* in a new one (another hash seed), after a call that accepted or
\* rejected, returns what the previous call returned; runs in which the
\* allocator failed (-ENOMEM) are left aside.
C11_Idempotent ==
    (at = "done" /\ calls > 1 /\ ret # -ENOMEM /\ prev_ret # -ENOMEM)
        => ret = prev_ret

C11_Witness ==
    /\ at = "done"
    /\ calls = 2
    /\ ret = 0
    /\ prev_ret = 0
    /\ lttng_hash_seed = 2
    /\ \E k \in 1..Len(data) : data[k].insn.op \in OpsLogical

C12_Numeric(t) == t \in {"REG_S64", "REG_DOUBLE"}

C12_Comparable(r) ==
    \/ C12_Numeric(r[REG_R0].type) /\ C12_Numeric(r[REG_R1].type)
    \/ r[REG_R0].type = "REG_STRING" /\ r[REG_R1].type = "REG_STRING"

\* C12: a generic comparison (EQ..LE) passes the type check if and only if
\* R0 and R1 are both numeric (S64 or DOUBLE) or both STRING; with an
\* UNKNOWN operand or a string against a number the program is rejected.
C12_GenericCompare ==
    /\ [](at = "exec" /\ insn.op \in OpsCompare => C12_Comparable(reg))
    /\ [][(at = "validate" /\ insn.op \in OpsCompare
              /\ ~C12_Comparable(reg))
             => (at' = "end" /\ ret' = -EINVAL)]_vars
    /\ [][(at = "validate" /\ insn.op \in OpsCompare
              /\ C12_Comparable(reg)
              /\ \A k \in 1..Len(merge_points) :
                    merge_points[k].target_pc # pc)
             => (at' = "exec" /\ ret' = 0)]_vars

C12_Witness ==
    /\ at = "end"
    /\ insn.op = "FILTER_OP_EQ"
    /\ reg[REG_R0].type = "REG_S64"
    /\ reg[REG_R1].type = "REG_STRING"
    /\ ret = -EINVAL

\* C13: a comparison that passed the type check leaves R0 = (S64, 0), or
\* (DOUBLE, 0) for a _DOUBLE comparison, whatever R0's literal flag was,
\* leaves R1 as it was and advances by the one-byte header.
C13_CompareResult ==
    [][(at = "exec" /\ insn.op \in OpsAllCompare /\ at' = "loop")
          => /\ reg'[REG_R0] =
                  [type |-> IF insn.op \in OpsCompareDouble
                            THEN "REG_DOUBLE" ELSE "REG_S64",
                   literal |-> 0]
             /\ reg'[REG_R1] = reg[REG_R1]
             /\ next_pc' = pc + SizeofBinaryOp]_vars

\* C14: every call returns: each iteration that goes on advances pc by at
\* least one byte, the loop body only runs with pc inside the buffer, and
\* the walk ends with a result.
C14_Terminates ==
    /\ <>(at = "done")
    /\ [][(at = "exec" /\ at' = "loop")
             => (pc' >= pc + 1 /\ pc' = next_pc')]_vars
    /\ [](at \in {"validate", "exec"} => pc < len)

C14_Witness ==
    /\ at = "done"
    /\ insn.op = "FILTER_OP_RETURN"
    /\ pc >= 6
    /\ ret = 0

\* C15: when a call starts its walk, also after an earlier call that
\* accepted or was rejected midway, every register is (UNKNOWN, 0) and the
\* merge table is empty, whatever the earlier call left behind.
C15_FreshState ==
    (at = "loop" /\ pc = 0) => (reg = InitReg /\ merge_points = <<>>)

C15_Witness ==
    /\ at = "loop"
    /\ pc = 0
    /\ calls = 2
    /\ prev_ret = 0
    /\ heap_nodes > 0

\* C16: the hash seed is written once, by the first call, under the
\* lttng_hash_seed_ready guard, and never again; every node in the table
\* carries the hash of its key under that seed, which is the hash the
\* lookup computes.
C16_SeedOnce ==
    /\ [][(lttng_hash_seed_ready = 0 /\ at = "entry")
             => (lttng_hash_seed_ready' = 1 /\ lttng_hash_seed' = clock)]_vars
    /\ [][(lttng_hash_seed_ready = 1)
             => (lttng_hash_seed_ready' = 1
                 /\ lttng_hash_seed' = lttng_hash_seed)]_vars
    /\ [](at # "entry" => lttng_hash_seed_ready = 1)
    /\ [](\A k \in 1..Len(merge_points) :
            merge_points[k].hash =
                lttng_hash_mix(merge_points[k].target_pc, lttng_hash_seed))

C16_Witness ==
    /\ calls = 2
    /\ at = "validate"
    /\ clock = 2
    /\ lttng_hash_seed = 1
    /\ \E k \in 1..Len(merge_points) : merge_points[k].target_pc = pc

\* C17: the transfer of an AND/OR that passed the type check changes no
\* register, appends one entry keyed skip_offset holding the registers of
\* the branch site, keeps every entry already stored (also one with the
\* same key) and advances by the 3-byte header; no transfer ever alters a
\* stored snapshot.
C17_LogicalTransfer ==
    /\ [][(at = "exec" /\ insn.op \in OpsLogical /\ at' = "loop")
             => /\ reg' = reg
                /\ Len(merge_points') = Len(merge_points) + 1
                /\ merge_points'[Len(merge_points')].target_pc
                      = insn.skip_offset
                /\ merge_points'[Len(merge_points')].reg = reg
                /\ next_pc' = pc + SizeofLogicalOp
                /\ pc' = next_pc']_vars
    /\ [][(at = "exec")
             => \A k \in 1..Len(merge_points) :
                   /\ k <= Len(merge_points')
                   /\ merge_points'[k] = merge_points[k]]_vars

C17_Witness ==
    /\ at = "loop"
    /\ \E j, k \in 1..Len(merge_points) :
          /\ j < k
          /\ merge_points[j].target_pc = merge_points[k].target_pc
          /\ merge_points[j].reg # reg

\* the registers exec_insn assigns for an instruction
C18_Written(i) ==
    IF i.op \in OpsAllCompare \cup OpsAllUnary THEN {REG_R0}
    ELSE IF i.op \in OpsLoadFieldRefTyped \cup OpsCastNumeric
                     \cup {"FILTER_OP_LOAD_STRING", "FILTER_OP_LOAD_S64",
                           "FILTER_OP_LOAD_DOUBLE"}
    THEN {i.reg}
    ELSE {}

\* C18: a register's literal flag is 1 exactly when its value was produced
\* by a literal load (LOAD_STRING, LOAD_S64, LOAD_DOUBLE): every transfer
\* leaves the flag of the register it produces at 1 for a literal load and
\* at 0 for a field-reference load, a comparison, a unary op or a cast, and
\* leaves the other register alone.
C18_LiteralFlag ==
    [][(at = "exec" /\ at' = "loop")
          => \A k \in DOMAIN reg :
                IF k \in C18_Written(insn)
                THEN reg'[k].literal = 1
                        <=> insn.op \in {"FILTER_OP_LOAD_STRING",
                                         "FILTER_OP_LOAD_S64",
                                         "FILTER_OP_LOAD_DOUBLE"}
                ELSE reg'[k] = reg[k]]_vars

\* opcodes whose reg field the type checker tests
C19_RegisterBearing ==
    OpsAllUnary \cup OpsLoadFieldRefTyped \cup OpsCastNumeric
    \cup {"FILTER_OP_LOAD_STRING", "FILTER_OP_LOAD_S64",
          "FILTER_OP_LOAD_DOUBLE"}

\* C19: a unary, load or cast (other than CAST_NOP) whose reg field is not
\* below REG_ERROR is rejected with the registers untouched, so the
\* transfer only ever gets a reg field inside 0..NR_REG-1.
C19_RegisterIndexChecked ==
    /\ [](at = "exec" /\ insn.op \in C19_RegisterBearing
            => insn.reg \in 0..(NR_REG - 1))
    /\ [][(at = "validate" /\ insn.op \in C19_RegisterBearing
              /\ insn.reg >= REG_ERROR)
             => (at' = "end" /\ ret' = -EINVAL /\ reg' = reg
                 /\ next_pc' = next_pc)]_vars

C19_Witness ==
    /\ at = "end"
    /\ insn.op = "FILTER_OP_CAST_TO_S64"
    /\ insn.reg = REG_ERROR
    /\ pc > 0
    /\ ret = -EINVAL

\* C20: a LOAD_STRING passes the bounds check exactly when its NUL lies
\* inside the buffer (never when the header ends at the buffer end); the
\* transfer then advances by header + string length + 1, which stays
\* inside the buffer, and makes the target register (STRING, literal 1).
C20_LoadString ==
    /\ [][(at = "loop" /\ pc < len /\ insn'.op = "FILTER_OP_LOAD_STRING")
             => /\ at' = "validate"
                      <=> pc + SizeofLoadOp + insn'.str_len + 1 <= len
                /\ at' # "validate" => (at' = "end" /\ ret' = -EINVAL)]_vars
    /\ [][(at = "exec" /\ insn.op = "FILTER_OP_LOAD_STRING")
             => /\ at' = "loop"
                /\ next_pc' = pc + SizeofLoadOp + insn.str_len + 1
                /\ next_pc' <= len
                /\ reg'[insn.reg] = [type |-> "REG_STRING", literal |-> 1]]_vars

C20_Witness ==
    /\ at = "end"
    /\ insn.op = "FILTER_OP_LOAD_STRING"
    /\ pc > 0
    /\ pc + SizeofLoadOp = len
    /\ ret = -EINVAL

\* the admissibility table of the specialised opcodes
C21_Admissible(i, r) ==
    LET t0 == r[REG_R0].type
        t1 == r[REG_R1].type
        num == {"REG_S64", "REG_DOUBLE"}
    IN  CASE i.op \in OpsCompareString ->
                t0 = "REG_STRING" /\ t1 = "REG_STRING"
          [] i.op \in OpsCompareS64 -> t0 = "REG_S64" /\ t1 = "REG_S64"
          [] i.op \in OpsCompareDouble ->
                /\ t0 \in num /\ t1 \in num
                /\ (t0 = "REG_DOUBLE" \/ t1 = "REG_DOUBLE")
          [] i.op \in OpsUnary \cup {"FILTER_OP_CAST_TO_S64"} ->
                i.reg < REG_ERROR /\ r[i.reg].type \in num
          [] i.op \in OpsUnaryS64 ->
                i.reg < REG_ERROR /\ r[i.reg].type = "REG_S64"
          [] i.op \in OpsUnaryDouble \cup {"FILTER_OP_CAST_DOUBLE_TO_S64"} ->
                i.reg < REG_ERROR /\ r[i.reg].type = "REG_DOUBLE"
          [] i.op \in OpsLogical -> t0 = "REG_S64"
          [] i.op \in {"FILTER_OP_CAST_NOP", "FILTER_OP_RETURN"} -> TRUE

\* C21: for every specialised comparison, unary, logical and cast opcode
\* (and RETURN) and every pair of register types, the type check accepts
\* exactly when the admissibility table does; the operand of a unary op or
\* a cast is the register its reg field names.
C21_AdmissibilityTable ==
    [][(at = "validate")
          => /\ at' = "exec" <=> C21_Admissible(insn, reg)
             /\ ret' = 0 <=> C21_Admissible(insn, reg)
             /\ at' # "exec" => (at' = "end" /\ ret' = -EINVAL)]_vars

C21_Witness ==
    /\ at = "end"
    /\ insn.op = "FILTER_OP_GE_DOUBLE"
    /\ reg[REG_R0].type = "REG_S64"
    /\ reg[REG_R1].type = "REG_S64"
    /\ ret = -EINVAL


\* C22: when exec_insn runs a unary op, the register whose type becomes
\* S64 or DOUBLE is the one the reg field names, the register the type
\* check read, and no other register is written.
C22_UnaryDestination ==
    [][(at = "exec" /\ insn.op \in OpsAllUnary /\ at' = "loop")
          => /\ reg'[insn.reg].type =
                    (IF insn.op \in OpsUnaryDouble THEN "REG_DOUBLE"
                     ELSE "REG_S64")
             /\ \A k \in 0..(NR_REG - 1) :
                    k # insn.reg => reg'[k] = reg[k]]_vars


\* one register is a string and the other a number
C23_Mixed(r) ==
    \/ /\ r[REG_R0].type = "REG_STRING"
       /\ r[REG_R1].type \in {"REG_S64", "REG_DOUBLE"}
    \/ /\ r[REG_R0].type \in {"REG_S64", "REG_DOUBLE"}
       /\ r[REG_R1].type = "REG_STRING"

\* a register whose type is none of string, S64 and DOUBLE
C23_UnknownType(r) ==
    \/ r[REG_R0].type = "REG_TYPE_UNKNOWN"
    \/ r[REG_R1].type = "REG_TYPE_UNKNOWN"

\* C23: when a generic comparator is rejected because it mixes a string
\* with a number, the value returned to the caller differs from the value
\* returned when a register of the comparator has an unknown type.
C23_MismatchDistinct ==
    (/\ at = "end"
     /\ insn.op \in OpsCompare
     /\ C23_Mixed(reg)
     /\ log # <<>>
     /\ log[Len(log)] = "type mismatch for binary operator")
        => \A u \in RegFiles :
              C23_UnknownType(u)
                 => ret # validate_instruction_context(u, pc, insn).ret


\* C24: when cds_lfht_new fails the call returns -ENOMEM at once; when the
\* node allocation of an AND/OR fails the table gets no entry, the walk
\* stops and -ENOMEM is returned; in both cases nothing the call allocated
\* is still allocated when it returns.
C24_OutOfMemory ==
    /\ [][(at = "entry" /\ ~heap_ht')
             => (at' = "done" /\ ret' = -ENOMEM /\ heap_nodes' = heap_nodes)]_vars
    /\ [][(at = "exec" /\ insn.op \in OpsLogical /\ ret' = -ENOMEM)
             => (merge_points' = merge_points /\ at' = "end" /\ pc' = pc)]_vars
    /\ [][(at = "end" /\ ret = -ENOMEM)
             => (at' = "done" /\ ret' = -ENOMEM)]_vars
    /\ [](at = "done" /\ ret = -ENOMEM => heap_nodes = 0 /\ ~heap_ht)


\* C25: in an accepted buffer the skip_offset of every AND/OR at offset p
\* is an offset at which the walk decoded an instruction, after p and not
\* after the terminating RETURN (so inside the buffer): no target in the
\* middle of an instruction, past the RETURN or at or past the buffer end
\* is accepted.
C25_JumpTargets ==
    Accepted =>
        \A k \in 1..Len(data) :
            data[k].insn.op \in OpsLogical =>
                LET q == data[k].insn.skip_offset
                IN  /\ Decoded(q)
                    /\ q > data[k].pc
                    /\ q <= pc
                    /\ q < len

C25_Witness ==
    /\ Accepted
    /\ insn.op = "FILTER_OP_RETURN"
    /\ \E k \in 1..Len(data) :
          /\ data[k].insn.op \in OpsLogical
          /\ data[k].insn.skip_offset < pc


\* C26: a buffer of length 0 is rejected: the loop body never runs (no
\* instruction is read, pc and the registers stay as at entry) and the
\* call returns the -EINVAL ret was initialised with, never success; when
\* the table cannot be allocated the call has returned -ENOMEM before.
C26_EmptyRejected ==
    (at = "done" /\ len = 0)
        => /\ ret < 0
           /\ insn = NoInsn
           /\ pc = 0 /\ next_pc = 0
           /\ reg = InitReg
           /\ \/ ret = -EINVAL /\ log = <<>>
              \/ /\ ret = -ENOMEM
                 /\ log = <<"Error allocating hash table for bytecode validation">>

C26_Witness ==
    /\ at = "done"
    /\ len = 0
    /\ ret = -EINVAL
    /\ log = <<>>
    /\ ~heap_ht


\* C27: init installs sighandler for SIGIO only after init_socket has set
\* pfd, and no listener thread created through sighandler, whether the
\* signal reached it or chain_signal called it, has called recvfrom with
\* pfd = -1.
C27_ListenerAfterSocket ==
    /\ sigio = "sighandler" => pfd # -1
    /\ \A k \in 1..Len(listeners) : -1 \notin listeners[k].recvfrom_fd

====
